---- MODULE Spec2Model ----
(***************************************************************************)
(* The real-time layer of registerRoutes: the `clients` map of the         *)
(* WebSocket server and the 'connection', 'message' and 'close' handlers.  *)
(* One action per handler call; a handler runs to completion (Node's       *)
(* single-threaded event loop), so no two handlers interleave.             *)
(***************************************************************************)
EXTENDS Integers, Sequences, FiniteSets, TLC

\* ---------------------------------------------------------------- bounds
MaxConn == 3
MaxChan == 2
MaxUser == 2

Conn     == 1..MaxConn          \* WebSocket handles, one per accepted transport
Channels == 1..MaxChan          \* channelId values carried by frames
Users    == 1..MaxUser          \* userId values carried by frames
Payloads == {"hi", "yo"}        \* message.data values (opaque to the server)

\* ------------------------------------------------------------ the state
VARIABLES
    readyState,  \* readyState[ws]: the transport state of each handle
    clients,     \* the Map<WebSocket, {userId, channels}>, in insertion order
    last,        \* the handler call of the current event-loop turn and what it did
    sentAuth,    \* history: the handles that have sent an 'auth' frame
    closedJoined, \* history: the handles that held a subscription when they closed
    props,       \* MessageInput: whether it is mounted, its channelId and its user
    content,     \* MessageInput: the text of the input
    typingTimeoutRef, \* MessageInput: typingTimeoutRef.current, a timer id
    timers,      \* the browser's pending timeouts
    nextTimer,   \* the id the last setTimeout returned
    typing,      \* the isTyping of the last sendTyping call
    analysed     \* the text of the last handleToneAnalysis call

\* The state of the client's MessageInput component.
client == <<props, content, typingTimeoutRef, timers, nextTimer, typing, analysed>>

vars == <<readyState, clients, last, sentAuth, closedJoined, client>>

\* ---------------------------------------------------- the Map operations
Has(m, ws) == \E i \in DOMAIN m : m[i].ws = ws

Get(m, ws) == m[CHOOSE i \in DOMAIN m : m[i].ws = ws]

\* Map.set keeps the position of an existing key and appends a new one.
MapSet(m, ws, v) ==
    IF Has(m, ws)
    THEN [i \in DOMAIN m |-> IF m[i].ws = ws THEN v ELSE m[i]]
    ELSE Append(m, v)

MapDelete(m, ws) == SelectSeq(m, LAMBDA e : e.ws # ws)

Keys(m) == {m[i].ws : i \in DOMAIN m}

ChannelsOf(m, ws) == IF Has(m, ws) THEN Get(m, ws).channels ELSE {}

\* -------------------------------------------------------- inbound frames
AuthFrames  == [type : {"auth"}, userId : Users]
JoinFrames  == [type : {"join_channel"}, channelId : Channels]
LeaveFrames == [type : {"leave_channel"}, channelId : Channels]
NewMessageFrames == [type : {"new_message"}, channelId : Channels, data : Payloads]
TypingFrames ==
    [type : {"typing"}, channelId : Channels, userId : Users, isTyping : BOOLEAN]

Frames == AuthFrames \cup JoinFrames \cup LeaveFrames
              \cup NewMessageFrames \cup TypingFrames

\* A frame whose type no case of the switch matches.
UnknownFrame == [type |-> "ping"]

\* The text of a frame on the wire: the JSON text of a value, a text that
\* is no JSON at all, or the JSON text `null`.
JsonStringify(value) == [text |-> "json", value |-> value]
NotJson              == [text |-> "garbage", value |-> [type |-> ""]]
JsonNull             == [text |-> "null", value |-> [type |-> ""]]

RawFrames ==
    {JsonStringify(f) : f \in Frames \cup {UnknownFrame}} \cup {NotJson, JsonNull}

\* JSON.parse(data.toString()): throws on a text that is no JSON.
JsonParseThrows(data) == data.text = "garbage"
JsonParse(data)       == data.value

\* message.type of the switch: throws a TypeError when JSON.parse gave null.
ReadTypeThrows(data) == data.text = "null"

\* ------------------------------------------------------- outbound frames
NewMessageOut(message) ==
    JsonStringify([type |-> "new_message", message |-> message.data])

TypingOut(message) ==
    JsonStringify([type |-> "typing", userId |-> message.userId,
                   channelId |-> message.channelId, isTyping |-> message.isTyping])

\* One clientWs.send(frame) call: `ok` is FALSE when the call threw.
Sent(clientWs, frame, ok) == [to |-> clientWs, frame |-> frame, ok |-> ok]

\* ------------------------------------------------ the 'message' handler
\* The 'new_message' condition without its sender test.
NewMessageFilterEcho(clientInfo, clientWs, ws, message, rs) ==
    /\ message.channelId \in clientInfo.channels
    /\ rs[clientWs] = "OPEN"

\* The condition guarding the send of the 'new_message' loop.
NewMessageFilter(clientInfo, clientWs, ws, message, rs) ==
    /\ clientWs # ws
    /\ message.channelId \in clientInfo.channels
    /\ rs[clientWs] = "OPEN"

\* The 'typing' condition without its channel test.
TypingFilterAnyChannel(clientInfo, clientWs, ws, message, rs) ==
    /\ clientWs # ws
    /\ rs[clientWs] = "OPEN"

\* The 'typing' condition without its readyState test.
TypingFilterAnyState(clientInfo, clientWs, ws, message, rs) ==
    /\ clientWs # ws
    /\ message.channelId \in clientInfo.channels

\* The condition guarding the send of the 'typing' loop.
TypingFilter(clientInfo, clientWs, ws, message, rs) ==
    /\ clientWs # ws
    /\ message.channelId \in clientInfo.channels
    /\ rs[clientWs] = "OPEN"

\* What a send that throws does to the loop that called it: nothing catches
\* inside the forEach callback, so the exception leaves the loop.
AfterThrow(acc) == [sends |-> acc, error |-> TRUE, i |-> 0]

\* clients.forEach(...) of case 'new_message', from entry i on, in insertion
\* order. `faulty` are the handles whose send throws in this call.
RECURSIVE NewMessageLoop(_, _, _, _, _, _, _)
NewMessageLoop(m, i, ws, message, rs, faulty, acc) ==
    IF i > Len(m) THEN [sends |-> acc, error |-> FALSE, i |-> i]
    ELSE IF NewMessageFilter(m[i], m[i].ws, ws, message, rs)
         THEN IF m[i].ws \in faulty
              THEN AfterThrow(Append(acc, Sent(m[i].ws, NewMessageOut(message), FALSE)))
              ELSE NewMessageLoop(m, i + 1, ws, message, rs, faulty,
                       Append(acc, Sent(m[i].ws, NewMessageOut(message), TRUE)))
         ELSE NewMessageLoop(m, i + 1, ws, message, rs, faulty, acc)

\* clients.forEach(...) of case 'typing'.
RECURSIVE TypingLoop(_, _, _, _, _, _, _)
TypingLoop(m, i, ws, message, rs, faulty, acc) ==
    IF i > Len(m) THEN [sends |-> acc, error |-> FALSE, i |-> i]
    ELSE IF TypingFilter(m[i], m[i].ws, ws, message, rs)
         THEN IF m[i].ws \in faulty
              THEN AfterThrow(Append(acc, Sent(m[i].ws, TypingOut(message), FALSE)))
              ELSE TypingLoop(m, i + 1, ws, message, rs, faulty,
                       Append(acc, Sent(m[i].ws, TypingOut(message), TRUE)))
         ELSE TypingLoop(m, i + 1, ws, message, rs, faulty, acc)

\* An 'auth' that starts with the channels the user's other entries hold:
\* subscriptions kept by user.
CaseAuthInheritsChannels(m, ws, message) ==
    MapSet(m, ws,
           [ws |-> ws, userId |-> message.userId,
            channels |-> UNION {m[i].channels :
                                  i \in {j \in DOMAIN m :
                                            m[j].userId = message.userId}}])

\* An 'auth' that keeps the identity a handle already has: first write wins.
CaseAuthKeepsFirst(m, ws, message) ==
    IF Has(m, ws)
    THEN MapSet(m, ws, [Get(m, ws) EXCEPT !.channels = {}])
    ELSE MapSet(m, ws, [ws |-> ws, userId |-> message.userId, channels |-> {}])

\* case 'auth': a fresh entry, with a fresh empty channel set, under key ws.
CaseAuth(m, ws, message) ==
    MapSet(m, ws, [ws |-> ws, userId |-> message.userId, channels |-> {}])

\* A 'join_channel' that makes the channel the only one of the handle.
CaseJoinChannelResets(m, ws, message) ==
    IF Has(m, ws)
    THEN MapSet(m, ws, [Get(m, ws) EXCEPT !.channels = {message.channelId}])
    ELSE m

\* A 'join_channel' that makes an entry for a handle that has none.
CaseJoinChannelRegisters(m, ws, message) ==
    IF Has(m, ws)
    THEN MapSet(m, ws, [Get(m, ws) EXCEPT !.channels = @ \cup {message.channelId}])
    ELSE MapSet(m, ws, [ws |-> ws, userId |-> 0, channels |-> {message.channelId}])

\* case 'join_channel': only a handle that has an entry is changed.
CaseJoinChannel(m, ws, message) ==
    IF Has(m, ws)
    THEN MapSet(m, ws, [Get(m, ws) EXCEPT !.channels = @ \cup {message.channelId}])
    ELSE m

\* A 'leave_channel' that takes the channel from every entry of the user.
CaseLeaveChannelForUser(m, ws, message) ==
    IF Has(m, ws)
    THEN [i \in DOMAIN m |->
             IF m[i].userId = Get(m, ws).userId
             THEN [m[i] EXCEPT !.channels = @ \ {message.channelId}]
             ELSE m[i]]
    ELSE m

\* A 'leave_channel' that empties the set: channels.clear().
CaseLeaveChannelClears(m, ws, message) ==
    IF Has(m, ws)
    THEN MapSet(m, ws, [Get(m, ws) EXCEPT !.channels = {}])
    ELSE m

\* A 'leave_channel' that deletes nothing.
CaseLeaveChannelKeeps(m, ws, message) == m

\* case 'leave_channel'.
CaseLeaveChannel(m, ws, message) ==
    IF Has(m, ws)
    THEN MapSet(m, ws, [Get(m, ws) EXCEPT !.channels = @ \ {message.channelId}])
    ELSE m

Result(m, sends, error) == [clients |-> m, sends |-> sends, error |-> error]

\* A switch whose 'join_channel' case announces the join to the channel.
SwitchJoinAnnounces(m, ws, message, rs, faulty) ==
    CASE message.type = "auth" -> Result(CaseAuth(m, ws, message), <<>>, FALSE)
      [] message.type = "join_channel" ->
             LET r == NewMessageLoop(m, 1, ws,
                          [channelId |-> message.channelId, data |-> "hi"],
                          rs, faulty, <<>>)
             IN  Result(CaseJoinChannel(m, ws, message), r.sends, r.error)
      [] message.type = "leave_channel" ->
             Result(CaseLeaveChannel(m, ws, message), <<>>, FALSE)
      [] message.type = "new_message" ->
             LET r == NewMessageLoop(m, 1, ws, message, rs, faulty, <<>>)
             IN  Result(m, r.sends, r.error)
      [] message.type = "typing" ->
             LET r == TypingLoop(m, 1, ws, message, rs, faulty, <<>>)
             IN  Result(m, r.sends, r.error)
      [] OTHER -> Result(m, <<>>, FALSE)

\* A switch that drops the broadcast of a connection without an entry.
SwitchChecksIdentity(m, ws, message, rs, faulty) ==
    CASE message.type = "auth" -> Result(CaseAuth(m, ws, message), <<>>, FALSE)
      [] message.type = "join_channel" ->
             Result(CaseJoinChannel(m, ws, message), <<>>, FALSE)
      [] message.type = "leave_channel" ->
             Result(CaseLeaveChannel(m, ws, message), <<>>, FALSE)
      [] message.type = "new_message" /\ Has(m, ws) ->
             LET r == NewMessageLoop(m, 1, ws, message, rs, faulty, <<>>)
             IN  Result(m, r.sends, r.error)
      [] message.type = "typing" /\ Has(m, ws) ->
             LET r == TypingLoop(m, 1, ws, message, rs, faulty, <<>>)
             IN  Result(m, r.sends, r.error)
      [] OTHER -> Result(m, <<>>, FALSE)

\* The switch on message.type; a type no case matches falls through.
Switch(m, ws, message, rs, faulty) ==
    CASE message.type = "auth" -> Result(CaseAuth(m, ws, message), <<>>, FALSE)
      [] message.type = "join_channel" ->
             Result(CaseJoinChannel(m, ws, message), <<>>, FALSE)
      [] message.type = "leave_channel" ->
             Result(CaseLeaveChannel(m, ws, message), <<>>, FALSE)
      [] message.type = "new_message" ->
             LET r == NewMessageLoop(m, 1, ws, message, rs, faulty, <<>>)
             IN  Result(m, r.sends, r.error)
      [] message.type = "typing" ->
             LET r == TypingLoop(m, 1, ws, message, rs, faulty, <<>>)
             IN  Result(m, r.sends, r.error)
      [] OTHER -> Result(m, <<>>, FALSE)

\* A catch that throws the error on.
CatchRethrows(r) == [clients |-> r.clients, sends |-> r.sends,
                     caught |-> r.error, escaped |-> r.error]

\* The catch of the handler: the error is logged and goes no further.
Catch(r) == [clients |-> r.clients, sends |-> r.sends,
             caught |-> r.error, escaped |-> FALSE]

\* A handler that unregisters the handle whose send threw.
OnMessageEvictsFailed(m, ws, data, rs, faulty) ==
    IF JsonParseThrows(data) \/ ReadTypeThrows(data)
    THEN Catch(Result(m, <<>>, TRUE))
    ELSE LET r == Catch(Switch(m, ws, JsonParse(data), rs, faulty))
             failed == {r.sends[i].to : i \in {j \in DOMAIN r.sends : ~r.sends[j].ok}}
         IN  IF failed = {}
             THEN r
             ELSE [r EXCEPT !.clients = MapDelete(r.clients, CHOOSE w \in failed : TRUE)]

\* A handler that unregisters the sender of a frame it cannot read.
OnMessageDropsSender(m, ws, data, rs, faulty) ==
    IF JsonParseThrows(data) \/ ReadTypeThrows(data)
    THEN Catch(Result(MapDelete(m, ws), <<>>, TRUE))
    ELSE Catch(Switch(m, ws, JsonParse(data), rs, faulty))

\* ws.on('message', data => { try { ... } catch (error) { ... } })
OnMessage(m, ws, data, rs, faulty) ==
    IF JsonParseThrows(data) \/ ReadTypeThrows(data)
    THEN Catch(Result(m, <<>>, TRUE))
    ELSE Catch(Switch(m, ws, JsonParse(data), rs, faulty))

\* The body of a POST /api/messages request: a channel message, or a body
\* the insert schema rejects.
PostBodies  == [channelId : Channels, content : Payloads]
InvalidBody == [channelId |-> 0, content |-> ""]
NoMessage   == [channelId |-> 0, content |-> "", authorId |-> 0]

\* insertMessageSchema.parse({...req.body, authorId}): throws on a bad body.
InsertMessageParseThrows(body) == body = InvalidBody

\* app.post("/api/messages", ...): 401 without a session; 400 when the parse
\* or storage.createMessage throws; otherwise the message is stored and
\* answered with 201. `sends` are the frames the handler hands to the
\* sockets of `clients`: it names neither `clients` nor `wss`.
PostMessages(authenticated, user, body, storageThrows) ==
    IF ~authenticated
    THEN [status |-> 401, stored |-> NoMessage, sends |-> <<>>]
    ELSE IF InsertMessageParseThrows(body) \/ storageThrows
         THEN [status |-> 400, stored |-> NoMessage, sends |-> <<>>]
         ELSE [status |-> 201,
               stored |-> [channelId |-> body.channelId,
                           content |-> body.content, authorId |-> user],
               sends |-> <<>>]

\* A 'close' handler over an array: splice(indexOf(ws), 1) takes the last
\* entry out when ws is not there.
OnCloseSplice(m, ws) ==
    IF Has(m, ws) THEN MapDelete(m, ws) ELSE SubSeq(m, 1, Len(m) - 1)

\* A 'close' handler that leaves the entry in the map.
OnCloseKeeps(m, ws) == m

\* ws.on('close', ...): clients.delete(ws).
OnClose(m, ws) == MapDelete(m, ws)

\* -------------------------------------------------------------- actions
Idle == [kind |-> "idle"]

\* clients.get(ws): the entry of ws, or undefined.
Undefined == [ws |-> 0, userId |-> 0, channels |-> {}]

Lookup(m, ws) == IF Has(m, ws) THEN Get(m, ws) ELSE Undefined

\* MessageInput before it is rendered: no channel, no user.
Unmounted == [mounted |-> FALSE, channelId |-> 0, user |-> 0]

\* useRef<NodeJS.Timeout>(): typingTimeoutRef.current is undefined.
NoTimer == 0

Init ==
    /\ readyState = [ws \in Conn |-> "NONE"]
    /\ clients = <<>>
    /\ last = Idle
    /\ sentAuth = {}
    /\ closedJoined = {}
    /\ props = Unmounted
    /\ content = ""
    /\ typingTimeoutRef = NoTimer
    /\ timers = {}
    /\ nextTimer = 0
    /\ typing = FALSE
    /\ analysed = ""

\* wss.on('connection', ws => ...): a fresh handle, OPEN; no entry is made.
Connection(ws) ==
    /\ last = Idle
    /\ readyState[ws] = "NONE"
    /\ readyState' = [readyState EXCEPT ![ws] = "OPEN"]
    /\ last' = [kind |-> "connection", ws |-> ws]
    /\ UNCHANGED <<clients, sentAuth, closedJoined, client>>

\* Handles are opaque and fresh, so their names carry no meaning: they are
\* named here in the order in which they first send 'auth'.
NamedInAuthOrder(ws, data) ==
    (~JsonParseThrows(data) /\ JsonParse(data).type = "auth" /\ ws \notin sentAuth)
        => \A w \in Conn : w < ws => w \in sentAuth

\* One 'message' event of ws: the whole handler, on the text `data`. A
\* transport that has started closing delivers no further frame. `before` is
\* the entry ws had when the handler was called.
Message(ws, data, faulty) ==
    /\ last = Idle
    /\ readyState[ws] = "OPEN"
    /\ NamedInAuthOrder(ws, data)
    /\ LET r == OnMessage(clients, ws, data, readyState, faulty)
       IN  /\ clients' = r.clients
           /\ last' = [kind |-> "message", ws |-> ws, data |-> data,
                       before |-> Lookup(clients, ws),
                       sends |-> r.sends, caught |-> r.caught,
                       escaped |-> r.escaped]
    /\ sentAuth' = IF ~JsonParseThrows(data) /\ JsonParse(data).type = "auth"
                   THEN sentAuth \cup {ws} ELSE sentAuth
    /\ UNCHANGED <<readyState, closedJoined, client>>

\* The peer or the network starts closing the transport: the handle is no
\* longer OPEN, and its 'close' event has not been emitted yet.
Closing(ws) ==
    /\ last = Idle
    /\ readyState[ws] = "OPEN"
    /\ readyState' = [readyState EXCEPT ![ws] = "CLOSING"]
    /\ UNCHANGED <<clients, last, sentAuth, closedJoined, client>>

\* The 'close' event of ws: the transport is CLOSED and the handler runs.
Close(ws) ==
    /\ last = Idle
    /\ readyState[ws] \in {"OPEN", "CLOSING"}
    /\ readyState' = [readyState EXCEPT ![ws] = "CLOSED"]
    /\ clients' = OnClose(clients, ws)
    /\ last' = [kind |-> "close", ws |-> ws]
    /\ closedJoined' = IF ChannelsOf(clients, ws) # {}
                       THEN closedJoined \cup {ws} ELSE closedJoined
    /\ UNCHANGED <<sentAuth, client>>

\* The handler returns to the event loop: the turn is over.
Return ==
    /\ last # Idle
    /\ last' = Idle
    /\ UNCHANGED <<readyState, clients, sentAuth, closedJoined, client>>

\* One POST /api/messages request, handled to its response.
Post(authenticated, user, body, storageThrows) ==
    /\ last = Idle
    /\ LET r == PostMessages(authenticated, user, body, storageThrows)
       IN  last' = [kind |-> "post", status |-> r.status,
                    stored |-> r.stored, sends |-> r.sends]
    /\ UNCHANGED <<readyState, clients, sentAuth, closedJoined, client>>

\* The sends that may throw in one handler call: at most one handle's, and
\* only a handle the loops can reach.
Faults(ws, data) ==
    IF JsonParse(data).type \in {"new_message", "typing"}
    THEN {{}} \cup {{w} : w \in Keys(clients) \ {ws}}
    ELSE {{}}

\* A 'message' event, with the transport's part in it chosen.
Receive(ws, data) == \E faulty \in Faults(ws, data) : Message(ws, data, faulty)

Request ==
    \E authenticated \in BOOLEAN, user \in Users,
       body \in PostBodies \cup {InvalidBody}, storageThrows \in BOOLEAN :
        Post(authenticated, user, body, storageThrows)

Next ==
    \/ \E ws \in Conn : Connection(ws)
    \/ \E ws \in Conn, data \in RawFrames : Receive(ws, data)
    \/ \E ws \in Conn : Closing(ws)
    \/ \E ws \in Conn : Close(ws)
    \/ Request
    \/ Return

Spec == Init /\ [][Next]_vars

\* The handles that can have a frame in flight when their transport closes.
MaxLate  == 1
LateConn == 1..MaxLate

\* ------------------------------------------- the client's MessageInput
MaxTimer == 6

\* The texts of the input.
Values == {"", "h", "hi"}

\* clearTimeout(id): the timeout of that id, if it is pending, is dropped.
ClearTimeout(pending, id) == {t \in pending : t.id # id}

\* setTimeout(callback, delay) with the value its closure holds.
Timeout(id, callback, value, delay) ==
    [id |-> id, callback |-> callback, value |-> value, delay |-> delay]

\* MessageInput is rendered with a channelId (0: a direct message, none) and
\* the user of useAuth() (0: nobody is logged in).
Mount(channelId, user) ==
    /\ ~props.mounted
    /\ props' = [mounted |-> TRUE, channelId |-> channelId, user |-> user]
    /\ UNCHANGED <<content, typingTimeoutRef, timers, nextTimer, typing, analysed>>
    /\ UNCHANGED <<readyState, clients, last, sentAuth, closedJoined>>

\* handleContentChange(value), the whole call.
HandleContentChange(value) ==
    /\ props.mounted
    /\ nextTimer + 2 <= MaxTimer
    /\ content' = value
    /\ LET indicator == props.channelId # 0 /\ props.user # 0
           stop  == Timeout(nextTimer + 1, "sendTyping", value, 1000)
           tone  == Timeout(nextTimer + 2, "handleToneAnalysis", value, 500)
           \* lines 114-119
           timers1 == IF indicator
                      THEN ClearTimeout(timers, typingTimeoutRef) \cup {stop}
                      ELSE timers
           ref1    == IF indicator THEN stop.id ELSE typingTimeoutRef
       IN  /\ typing' = IF indicator THEN value # "" ELSE typing
           \* lines 123-126
           /\ timers' = ClearTimeout(timers1, ref1) \cup {tone}
           /\ typingTimeoutRef' = tone.id
    /\ nextTimer' = nextTimer + 2
    /\ UNCHANGED <<props, analysed>>
    /\ UNCHANGED <<readyState, clients, last, sentAuth, closedJoined>>

\* A pending timeout expires and its callback runs.
Fire(t) ==
    /\ t \in timers
    /\ timers' = timers \ {t}
    /\ typing' = IF t.callback = "sendTyping" THEN FALSE ELSE typing
    /\ analysed' = IF t.callback = "handleToneAnalysis" THEN t.value ELSE analysed
    /\ UNCHANGED <<props, content, typingTimeoutRef, nextTimer>>
    /\ UNCHANGED <<readyState, clients, last, sentAuth, closedJoined>>

Expire == \E t \in timers : Fire(t)

NextTyping ==
    \/ \E channelId \in Channels \cup {0}, user \in Users \cup {0} :
          Mount(channelId, user)
    \/ \E value \in Values : HandleContentChange(value)
    \/ Expire

\* The component alone; the browser runs every timeout that stays pending.
SpecTyping == Init /\ [][NextTyping]_vars /\ WF_vars(Expire)

\* ------------------------------------------------- the REST handlers
\* One call a handler makes after its guard: a storage read, a storage write
\* or an AI call.
Step(fn, kind) == [fn |-> fn, kind |-> kind]

\* A route of registerRoutes: what the handler checks of the request before
\* its calls ("schema": an insert schema parse that throws; "query": a
\* missing q answered with []), its calls in order, the call after which a
\* missing row is answered 404 (0: none), and its status codes.
Route(method, path, checks, steps, notFoundAfter, ok, onError) ==
    [method |-> method, path |-> path, checks |-> checks, steps |-> steps,
     notFoundAfter |-> notFoundAfter, ok |-> ok, onError |-> onError]

Routes ==
    { Route("GET", "/api/channels", "none",
            <<Step("storage.getChannels", "read")>>, 0, 200, 500),
      Route("GET", "/api/channels/:id", "none",
            <<Step("storage.getChannel", "read")>>, 1, 200, 500),
      Route("POST", "/api/channels", "schema",
            <<Step("storage.createChannel", "write")>>, 0, 201, 400),
      Route("GET", "/api/channels/:id/messages", "none",
            <<Step("storage.getChannelMessages", "read")>>, 0, 200, 500),
      Route("GET", "/api/channels/:id/members", "none",
            <<Step("storage.getChannelMembers", "read")>>, 0, 200, 500),
      Route("POST", "/api/channels/:id/join", "none",
            <<Step("storage.addChannelMember", "write")>>, 0, 200, 500),
      Route("POST", "/api/messages", "schema",
            <<Step("storage.createMessage", "write")>>, 0, 201, 400),
      Route("GET", "/api/messages/:id/thread", "none",
            <<Step("storage.getMessageThread", "read")>>, 0, 200, 500),
      Route("GET", "/api/direct-messages/:userId", "none",
            <<Step("storage.getDirectMessages", "read")>>, 0, 200, 500),
      Route("GET", "/api/direct-message-users", "none",
            <<Step("storage.getDirectMessageUsers", "read")>>, 0, 200, 500),
      Route("GET", "/api/users/:id", "none",
            <<Step("storage.getUser", "read")>>, 1, 200, 500),
      Route("POST", "/api/ai/suggest-reply", "none",
            <<Step("generateReply", "ai"),
              Step("storage.createAiSuggestion", "write")>>, 0, 200, 500),
      Route("POST", "/api/ai/analyze-tone", "none",
            <<Step("analyzeTone", "ai")>>, 0, 200, 500),
      Route("POST", "/api/ai/org-memory", "none",
            <<Step("storage.searchMessages", "read"),
              Step("queryOrgMemory", "ai")>>, 0, 200, 500),
      Route("POST", "/api/ai/generate-notes", "none",
            <<Step("storage.getChannel", "read"),
              Step("storage.getChannelMessages", "read"),
              Step("generateMeetingNotes", "ai"),
              Step("storage.createMeetingNotes", "write")>>, 1, 200, 500),
      Route("GET", "/api/channels/:id/notes", "none",
            <<Step("storage.getMeetingNotes", "read")>>, 0, 200, 500),
      Route("GET", "/api/search", "query",
            <<Step("storage.searchMessages", "read")>>, 0, 200, 500) }

Response(status, calls) == [status |-> status, calls |-> calls]

\* A handler that starts its work before it looks at the session.
HandleGuardsLate(route, authenticated, valid, found, failAt) ==
    IF ~authenticated
    THEN Response(401, SubSeq(route.steps, 1, 1))
    ELSE Response(route.ok, route.steps)

\* One handler of registerRoutes on one request. `valid`: the request passes
\* the handler's check; `found`: the row looked up exists; `failAt`: the call
\* that throws (0: none does).
Handle(route, authenticated, valid, found, failAt) ==
    IF ~authenticated THEN Response(401, <<>>)
    ELSE IF route.checks = "schema" /\ ~valid THEN Response(route.onError, <<>>)
    ELSE IF route.checks = "query" /\ ~valid THEN Response(200, <<>>)
    ELSE IF failAt > 0 /\ (route.notFoundAfter = 0 \/ found
                              \/ failAt <= route.notFoundAfter)
         THEN Response(route.onError, SubSeq(route.steps, 1, failAt))
    ELSE IF route.notFoundAfter > 0 /\ ~found
         THEN Response(404, SubSeq(route.steps, 1, route.notFoundAfter))
    ELSE Response(route.ok, route.steps)

\* One request to a route, handled to its response; `user` is req.user.id
\* of the session, and there is none without a session.
Api(route, authenticated, user, valid, found, failAt) ==
    /\ last = Idle
    /\ LET r == Handle(route, authenticated, valid, found, failAt)
       IN  last' = [kind |-> "api", method |-> route.method, path |-> route.path,
                    authenticated |-> authenticated,
                    user |-> IF authenticated THEN user ELSE 0,
                    status |-> r.status, calls |-> r.calls]
    /\ UNCHANGED <<readyState, clients, sentAuth, closedJoined, client>>

ApiRequest ==
    \E route \in Routes, authenticated \in BOOLEAN, user \in Users,
       valid \in BOOLEAN, found \in BOOLEAN, failAt \in 0..4 :
        /\ failAt <= Len(route.steps)
        /\ Api(route, authenticated, user, valid, found, failAt)

NextRest ==
    \/ ApiRequest
    \/ Request
    \/ Return

\* The REST routes alone.
SpecRest == Init /\ [][NextRest]_vars

\* A frame of ws that was in flight when its transport closed: its
\* 'message' event runs the same handler right after the 'close' event of ws.
LateMessage(ws, data, faulty) ==
    /\ last = [kind |-> "close", ws |-> ws]
    /\ readyState[ws] = "CLOSED"
    /\ NamedInAuthOrder(ws, data)
    /\ LET r == OnMessage(clients, ws, data, readyState, faulty)
       IN  /\ clients' = r.clients
           /\ last' = [kind |-> "message", ws |-> ws, data |-> data,
                       before |-> Lookup(clients, ws),
                       sends |-> r.sends, caught |-> r.caught,
                       escaped |-> r.escaped]
    /\ sentAuth' = IF ~JsonParseThrows(data) /\ JsonParse(data).type = "auth"
                   THEN sentAuth \cup {ws} ELSE sentAuth
    /\ UNCHANGED <<readyState, closedJoined, client>>

LateReceive(ws, data) ==
    \E faulty \in Faults(ws, data) : LateMessage(ws, data, faulty)

\* The server with a transport that can deliver a frame after the close.
NextLate ==
    \/ Next
    \/ \E ws \in LateConn, data \in RawFrames : LateReceive(ws, data)

SpecLate == Init /\ [][NextLate]_vars

\* ------------------------------------------------- reading `last`
Parsed == JsonParse(last.data)

IsFrame(type) ==
    /\ last.kind = "message"
    /\ ~JsonParseThrows(last.data)
    /\ Parsed.type = type

IsFanout == IsFrame("new_message") \/ IsFrame("typing")

\* The handles a send was called on in this turn, and the calls on one handle.
Targets == {last.sends[i].to : i \in DOMAIN last.sends}
SendsTo(c) == {i \in DOMAIN last.sends : last.sends[i].to = c}

\* The handles a fanout to channel x from ws is owed to. A fanout changes
\* neither the map nor a readyState, so the state after the turn is the state
\* the fanout ran in.
Eligible(ws, x) ==
    {c \in Keys(clients) :
        c # ws /\ x \in ChannelsOf(clients, c) /\ readyState[c] = "OPEN"}

Pos(c) == CHOOSE i \in DOMAIN clients : clients[i].ws = c

\* ------------------------------------------------------------- claims

\* C1: no frame produced by processing a 'new_message' or 'typing' frame of
\* a connection is sent to that connection, subscribed to the channel or not.
SenderExclusion == IsFanout => last.ws \notin Targets

SenderExclusionWitness ==
    /\ IsFanout
    /\ Parsed.channelId \in ChannelsOf(clients, last.ws)
    /\ Targets # {}

\* C2: every connection that is sent a frame of a fanout to channel X has X
\* in its subscription set at that moment.
NoCrossChannelLeak ==
    IsFanout => \A c \in Targets : Parsed.channelId \in ChannelsOf(clients, c)

NoCrossChannelLeakWitness ==
    /\ IsFanout
    /\ Targets # {}
    /\ \E c \in Keys(clients) \ {last.ws} :
          /\ readyState[c] = "OPEN"
          /\ ChannelsOf(clients, c) # {}
          /\ Parsed.channelId \notin ChannelsOf(clients, c)
          /\ c \notin Targets

\* C3: a 'new_message' for X with data D from S has exactly one send of
\* {type: 'new_message', message: D} called on every OPEN connection other
\* than S that is subscribed to X, and none on any other connection.
FanoutCompleteness ==
    IsFrame("new_message") =>
        /\ \A c \in Conn :
              Cardinality(SendsTo(c)) =
                  IF c \in Eligible(last.ws, Parsed.channelId) THEN 1 ELSE 0
        /\ \A i \in DOMAIN last.sends :
              last.sends[i].frame =
                  JsonStringify([type |-> "new_message", message |-> Parsed.data])

\* C4: a connection whose close event has been processed has no entry in the
\* map and is the target of no send of any fanout, and no error of a
\* 'message' handler gets past its catch.
ClosedGetsNothing ==
    /\ \A c \in Conn :
          readyState[c] = "CLOSED" =>
              ~Has(clients, c) /\ (IsFanout => c \notin Targets)
    /\ last.kind = "message" => ~last.escaped

ClosedGetsNothingWitness ==
    /\ IsFanout
    /\ Targets # {}
    /\ \E c \in closedJoined : readyState[c] = "CLOSED"

\* C5: once C has left X after joining it, C is sent no frame of a fanout to
\* X until C joins X again. Stated step by step: a 'leave_channel' X of C
\* ends with X outside C's set; X enters C's set only in a 'join_channel' X
\* of C itself; and a fanout to X calls send only on connections whose set
\* holds X.
LeaveBy(c, x) == IsFrame("leave_channel") /\ last.ws = c /\ Parsed.channelId = x
JoinBy(c, x)  == IsFrame("join_channel") /\ last.ws = c /\ Parsed.channelId = x
SentFanoutOf(c, x) == IsFanout /\ Parsed.channelId = x /\ c \in Targets

LeftStaysOut ==
    [][\A c \in Conn, x \in Channels :
          /\ LeaveBy(c, x)' => x \notin ChannelsOf(clients', c)
          /\ (x \notin ChannelsOf(clients, c) /\ x \in ChannelsOf(clients', c))
                 => JoinBy(c, x)'
          /\ SentFanoutOf(c, x)' => x \in ChannelsOf(clients', c)]_vars

LeftStaysOutWitness ==
    \E c \in Conn, x \in Channels :
        /\ LeaveBy(c, x)
        /\ x \in last.before.channels
        /\ x \notin ChannelsOf(clients, c)

\* C6: an 'auth' frame from a connection that already has an entry leaves
\* the set of channels of that entry as it was.
ReauthKeepsSubscriptions ==
    (IsFrame("auth") /\ last.before # Undefined) =>
        ChannelsOf(clients, last.ws) = last.before.channels

\* C7: a 'join_channel' X from a connection that has not yet sent 'auth'
\* subscribes it to X.
JoinWhilePending ==
    (IsFrame("join_channel") /\ last.ws \notin sentAuth) =>
        Parsed.channelId \in ChannelsOf(clients, last.ws)

\* C8: when a send of a fanout throws, send is still called on every other
\* eligible recipient, and the error does not leave the handler.
WriteFailureIsolation ==
    (IsFanout /\ last.caught) =>
        /\ \A c \in Eligible(last.ws, Parsed.channelId) : SendsTo(c) # {}
        /\ ~last.escaped

\* C9: no send of a fanout is called on a connection that is not OPEN, and
\* skipping one does not end the fanout: an eligible connection is left
\* without a send only behind a send that threw.
NonWritableSkipped ==
    IsFanout =>
        /\ \A c \in Targets : readyState[c] = "OPEN"
        /\ \A c \in Eligible(last.ws, Parsed.channelId) \ Targets :
              \E i \in DOMAIN last.sends :
                  ~last.sends[i].ok /\ Pos(last.sends[i].to) < Pos(c)

NonWritableSkippedWitness ==
    /\ IsFanout
    /\ \E c \in Keys(clients) \ {last.ws}, d \in Targets :
          /\ Parsed.channelId \in ChannelsOf(clients, c)
          /\ readyState[c] = "CLOSING"
          /\ Pos(c) < Pos(d)

\* C10: a 'typing' frame {channelId X, userId U, isTyping T} from S has
\* exactly one send of {type: 'typing', userId U, channelId X, isTyping T}
\* called on every OPEN connection other than S subscribed to X and on no
\* other; U is the frame's userId, not the identity S recorded.
TypingFanout ==
    IsFrame("typing") =>
        /\ \A c \in Conn :
              Cardinality(SendsTo(c)) =
                  IF c \in Eligible(last.ws, Parsed.channelId) THEN 1 ELSE 0
        /\ \A i \in DOMAIN last.sends :
              last.sends[i].frame =
                  JsonStringify([type |-> "typing", userId |-> Parsed.userId,
                                 channelId |-> Parsed.channelId,
                                 isTyping |-> Parsed.isTyping])


\* The types the switch has a case for.
KnownTypes == {"auth", "join_channel", "leave_channel", "new_message", "typing"}

\* The frame of this turn is one the handler cannot dispatch.
Undispatched(l) ==
    /\ l.kind = "message"
    /\ \/ JsonParseThrows(l.data)
       \/ ReadTypeThrows(l.data)
       \/ JsonParse(l.data).type \notin KnownTypes

\* C11: a frame that is not JSON, or whose type no case matches, is dropped:
\* the registry is as before, no frame is sent, and every connection, the
\* sender included, stays as open as it was and keeps its entry.
MalformedDropped ==
    [][Undispatched(last') =>
          /\ clients' = clients
          /\ readyState' = readyState
          /\ last'.sends = <<>>
          /\ ~last'.escaped]_vars

MalformedDroppedWitness ==
    /\ last.kind = "message"
    /\ JsonParseThrows(last.data)
    /\ readyState[last.ws] = "OPEN"
    /\ ChannelsOf(clients, last.ws) # {}
    /\ \E x \in ChannelsOf(clients, last.ws) : Eligible(last.ws, x) # {}

\* C12: no 'message' event lets an error out of its handler, whatever the
\* registry and the transports are; a handler call that failed leaves the
\* registry and every transport as they were, and the server goes on.
ErrorContainment ==
    [][last'.kind = "message" =>
          /\ ~last'.escaped
          /\ last'.caught => (clients' = clients /\ readyState' = readyState)]_vars

ErrorContainmentWitness ==
    /\ IsFanout
    /\ last.caught
    /\ last.sends # <<>>
    /\ \E i \in DOMAIN last.sends : ~last.sends[i].ok

\* C13: when POST /api/messages has stored a message for channel X, a
\* 'new_message' broadcast for X is originated: every OPEN subscriber of X is
\* handed a frame for it.
RestHandOff ==
    (last.kind = "post" /\ last.status = 201) =>
        \A c \in Eligible(0, last.stored.channelId) : SendsTo(c) # {}

\* C14: the connections one fanout to channel X calls send on are exactly the
\* subscribers of X, other than the sender and OPEN, of the one registry state
\* the handler ran in, never a part of them, and no error leaves the handler.
SnapshotIsolation ==
    IsFanout =>
        /\ Targets = Eligible(last.ws, Parsed.channelId)
        /\ ~last.escaped

\* C15: the 'close' event of a connection that has no entry in the registry
\* leaves the registry and every other connection as they were, and once a
\* connection is closed a further run of its 'close' handler changes nothing.
AbsentUnregisterNoOp ==
    [][(last'.kind = "close" /\ ~Has(clients, last'.ws)) =>
          /\ clients' = clients
          /\ \A c \in Conn \ {last'.ws} : readyState'[c] = readyState[c]
          /\ OnClose(clients', last'.ws) = clients']_vars

AbsentUnregisterNoOpWitness ==
    /\ last.kind = "close"
    /\ last.ws \notin sentAuth
    /\ \E c \in Keys(clients) : ChannelsOf(clients, c) # {}

\* C16: once the 'close' event of a connection has been processed, the
\* connection has no entry, and so no subscription, in the registry in that
\* and every later state, also when one of its frames is handled after it.
DestroyedIsTerminal ==
    \A c \in Conn : readyState[c] = "CLOSED" => ~Has(clients, c)

\* C17: a 'leave_channel' for X from a connection that is not subscribed to
\* X (it never joined, has left already, or has no entry) raises no error and
\* leaves the whole registry as it was.
LeaveIdempotent ==
    [][(IsFrame("leave_channel")'
          /\ Parsed'.channelId \notin ChannelsOf(clients, last'.ws)) =>
          /\ clients' = clients
          /\ ~last'.caught
          /\ ~last'.escaped]_vars

LeaveIdempotentWitness ==
    /\ IsFrame("leave_channel")
    /\ last.before # Undefined
    /\ last.before.channels # {}
    /\ Parsed.channelId \notin last.before.channels
    /\ Keys(clients) \ {last.ws} # {}

\* C18: a 'join_channel' for X from a connection already subscribed to X
\* leaves the registry as it was; a subscriber of X is sent exactly one frame,
\* not two and not none, by each broadcast to X of another connection; and
\* one 'leave_channel' for X leaves the connection without X.
JoinIdempotent ==
    [][/\ (IsFrame("join_channel")'
             /\ Parsed'.channelId \in ChannelsOf(clients, last'.ws))
          => clients' = clients
       /\ (IsFanout =>
              \A c \in Eligible(last.ws, Parsed.channelId) :
                  Cardinality(SendsTo(c)) = 1)'
       /\ IsFrame("leave_channel")' =>
             Parsed'.channelId \notin ChannelsOf(clients', last'.ws)]_vars

\* C19: handling an 'auth', 'join_channel' or 'leave_channel' frame calls
\* send on no connection: no acknowledgement, no error frame, no notice to
\* the other subscribers.
ControlFramesSilent ==
    (IsFrame("auth") \/ IsFrame("join_channel") \/ IsFrame("leave_channel"))
        => last.sends = <<>>

ControlFramesSilentWitness ==
    /\ IsFrame("join_channel")
    /\ Parsed.channelId \in ChannelsOf(clients, last.ws)
    /\ Eligible(last.ws, Parsed.channelId) # {}

\* The handles whose send threw in this turn.
ThrownOn == {last.sends[i].to : i \in {j \in DOMAIN last.sends : ~last.sends[j].ok}}

\* C20: a 'new_message' or 'typing' frame of a connection that never sent
\* 'auth' is not dropped: the sends are those the same frame has when the
\* connection is identified, and every subscriber the loop reaches is sent it.
UnidentifiedBroadcaster ==
    (IsFanout /\ last.ws \notin sentAuth) =>
        /\ \A u \in Users :
              last.sends =
                  OnMessage(CaseAuth(clients, last.ws, [userId |-> u]), last.ws,
                            last.data, readyState, ThrownOn).sends
        /\ Eligible(last.ws, Parsed.channelId) # {} => last.sends # <<>>

UnidentifiedBroadcasterWitness ==
    /\ IsFanout
    /\ last.ws \notin sentAuth
    /\ \E i \in DOMAIN last.sends : last.sends[i].ok

\* Two connections with an entry that recorded the same userId.
SameUser(c1, c2) ==
    /\ c1 # c2
    /\ Has(clients, c1) /\ Has(clients, c2)
    /\ Get(clients, c1).userId = Get(clients, c2).userId

\* C21: for two connections that sent 'auth' with the same userId, a
\* 'join_channel' or 'leave_channel' of one never changes the subscription
\* set of the other, and a broadcast of one to a channel the other is
\* subscribed to is sent to the other.
PerConnectionSubscriptions ==
    [][\A c1, c2 \in Conn :
          SameUser(c1, c2) =>
              /\ ((IsFrame("join_channel") \/ IsFrame("leave_channel"))
                    /\ last.ws = c1)'
                 => ChannelsOf(clients', c2) = ChannelsOf(clients, c2)
              /\ (IsFanout /\ last.ws = c1
                    /\ c2 \in Eligible(c1, Parsed.channelId))'
                 => (c2 \in Targets)']_vars

\* The event of this turn, by the handle it belongs to.
MessageBy(c) == last.kind = "message" /\ last.ws = c
AuthBy(c)    == IsFrame("auth") /\ last.ws = c
CloseOf(c)   == last.kind = "close" /\ last.ws = c

\* The registry with the entry of c alone.
Alone(m, c) == SelectSeq(m, LAMBDA e : e.ws = c)

\* C22: each frame of a connection is handled to completion, in the order of
\* its 'message' events: the entry of the connection after a frame is what the
\* handler makes of its entry before and that frame alone, and no event of
\* another connection changes it in between.
PerConnectionOrder ==
    [][\A c \in Conn :
          /\ MessageBy(c)' =>
                Lookup(clients', c) =
                    Lookup(OnMessage(Alone(clients, c), c, last'.data,
                                     readyState, {}).clients, c)
          /\ (~MessageBy(c)' /\ ~CloseOf(c)') =>
                Lookup(clients', c) = Lookup(clients, c)]_vars

PerConnectionOrderWitness ==
    /\ last.kind = "message"
    /\ last.before # Undefined
    /\ last.before.channels # {}
    /\ Lookup(clients, last.ws) # last.before
    /\ \E c \in Keys(clients) \ {last.ws} :
          /\ Get(clients, c).userId = last.before.userId
          /\ ChannelsOf(clients, c) # {}

\* C23: a channel enters the subscription set of a connection only by a
\* 'join_channel' frame for it of that connection; no frame of another
\* connection, no 'auth' and no fanout adds one.
OnlyOwnJoins ==
    [][\A c \in Conn, x \in Channels :
          (x \in ChannelsOf(clients', c) /\ x \notin ChannelsOf(clients, c))
              => JoinBy(c, x)']_vars

OnlyOwnJoinsWitness ==
    /\ IsFrame("auth")
    /\ ChannelsOf(clients, last.ws) = {}
    /\ \E c \in Keys(clients) \ {last.ws} :
          /\ Get(clients, c).userId = Parsed.userId
          /\ ChannelsOf(clients, c) # {}

\* C24: after an 'auth' frame of a connection the userId recorded for it is
\* that frame's userId, whatever it was and whatever other connections hold,
\* and nothing but its own 'auth' changes it.
LastWriteWins ==
    [][\A c \in Conn :
          /\ (AuthBy(c) =>
                 Has(clients, c) /\ Get(clients, c).userId = Parsed.userId)'
          /\ (Has(clients, c) /\ Has(clients', c) /\ ~AuthBy(c)') =>
                Get(clients', c).userId = Get(clients, c).userId]_vars

LastWriteWinsWitness ==
    /\ IsFrame("auth")
    /\ last.before # Undefined
    /\ last.before.userId # Parsed.userId
    /\ \E c \in Keys(clients) \ {last.ws} : Get(clients, c).userId = Parsed.userId

\* C25: a connection is a key of the registry exactly when it has sent an
\* 'auth' frame and its 'close' event has not been handled since: a key
\* appears only by an 'auth' of the handle and goes only by its 'close';
\* accepting a connection makes no entry.
RegistryMembership ==
    [][\A c \in Conn :
          Has(clients', c) <=>
              (AuthBy(c)' \/ (Has(clients, c) /\ ~CloseOf(c)'))]_vars

RegistryMembershipWitness ==
    /\ last.kind = "connection"
    /\ ~Has(clients, last.ws)
    /\ \E c \in sentAuth : readyState[c] = "CLOSED" /\ ~Has(clients, c)
    /\ \E c \in Keys(clients) : readyState[c] = "OPEN"

\* C26: a 'new_message' or 'typing' frame for X of a connection that is not
\* itself subscribed to X has send called on every OPEN subscriber of X but
\* the sender, and on no other connection.
SenderNeedsNoSubscription ==
    (IsFanout /\ Parsed.channelId \notin ChannelsOf(clients, last.ws)) =>
        \A c \in Conn :
            c \in Targets <=> c \in Eligible(last.ws, Parsed.channelId)

\* C27: handling a 'new_message' or 'typing' frame leaves the registry as it
\* was: no key added or removed, no userId and no subscription set changed,
\* with or without recipients and whether or not a send throws.
FanoutLeavesRegistry ==
    [][IsFanout' => clients' = clients]_vars

FanoutLeavesRegistryWitness ==
    /\ IsFanout
    /\ last.caught
    /\ \E i \in DOMAIN last.sends : last.sends[i].ok
    /\ \E i \in DOMAIN last.sends : ~last.sends[i].ok

\* C28: a 'join_channel' or 'leave_channel' for X of connection C changes at
\* most whether X is in C's own subscription set: the keys and their order,
\* C's userId, C's other channels and every other entry are as before.
JoinLeaveLocality ==
    [][(IsFrame("join_channel") \/ IsFrame("leave_channel"))' =>
          /\ [i \in DOMAIN clients' |-> clients'[i].ws]
                 = [i \in DOMAIN clients |-> clients[i].ws]
          /\ \A d \in Conn \ {last'.ws} : Lookup(clients', d) = Lookup(clients, d)
          /\ Lookup(clients', last'.ws).userId = Lookup(clients, last'.ws).userId
          /\ ChannelsOf(clients', last'.ws) \ {Parsed'.channelId}
                 = ChannelsOf(clients, last'.ws) \ {Parsed'.channelId}]_vars

JoinLeaveLocalityWitness ==
    /\ IsFrame("join_channel")
    /\ last.before # Undefined
    /\ last.before.channels # {}
    /\ Parsed.channelId \notin last.before.channels
    /\ \E d \in Keys(clients) \ {last.ws} : ChannelsOf(clients, d) # {}

\* C29: whenever the last sendTyping call of the input said isTyping true, a
\* sendTyping(channelId, false) call follows: a typing indicator does not
\* stay on forever once the user stops changing the text.
TypingClears == typing ~> ~typing

\* C30: every route handler of registerRoutes answers a request without a
\* session with 401 and has made no storage call and no AI call for it.
AuthenticationGuard ==
    (last.kind = "api" /\ ~last.authenticated) =>
        last.status = 401 /\ last.calls = <<>>

AuthenticationGuardWitness ==
    /\ last.kind = "api"
    /\ ~last.authenticated
    /\ last.path = "/api/ai/generate-notes"
    /\ last.status = 401

====
